---- MODULE Spec2Model ----
(***************************************************************************)
(* Poll lifecycle and vote integrity of the "votes" Django application.    *)
(*                                                                         *)
(* The relational store is modelled table by table (Poll, Question,        *)
(* Choice, PollUser, UserChoice).  Every HTTP request is a short-lived     *)
(* unit of work running in one of NumWorkers worker slots; a request is    *)
(* split into steps exactly where the view code issues separate            *)
(* statements against the store (a read followed later by a save, or by a  *)
(* transaction), because nothing in the views locks a row.                 *)
(***************************************************************************)
EXTENDS Integers, Sequences, FiniteSets, TLC

----------------------------------------------------------------------------
(* Bounds of the model *)

MaxPolls == 1       \* polls that create_poll may persist
MaxClock == 3       \* readings of timezone.now() that are stored

----------------------------------------------------------------------------
(* Elementary values *)

None == 0                       \* NULL of a nullable DateTimeField
OrgUsers == {1, 2}              \* OrganizationUser rows (memberships)
Creators == {1}                 \* the memberships that submit the creation form
Workers == {1, 2}                \* request slots: requests in flight together

\* Strings are sequences of characters; " " is whitespace, "A" is upper case
Lower(s) == [i \in 1..Len(s) |-> IF s[i] = "A" THEN "a" ELSE s[i]]

RECURSIVE LStrip(_)
LStrip(s) == IF s # <<>> /\ Head(s) = " " THEN LStrip(Tail(s)) ELSE s

RECURSIVE RStrip(_)
RStrip(s) ==
    IF s # <<>> /\ s[Len(s)] = " " THEN RStrip(SubSeq(s, 1, Len(s) - 1)) ELSE s

Strip(s) == RStrip(LStrip(s))

\* A JSON scalar submitted for min / max
JInt(n) == [k |-> "int", v |-> n]
JNumStr(n) == [k |-> "numstr", v |-> n]
JNaN == [k |-> "nan", v |-> 0]
JNull == [k |-> "null", v |-> 0]
JMissing == [k |-> "missing", v |-> 0]     \* the key is absent

\* (question or {}).get(key, 1)
GetOr1(x) == IF x = JMissing THEN JInt(1) ELSE x

\* int(x): TypeError on null, ValueError on a non-numeric string
IntOk(x) == x.k \in {"int", "numstr"}
IntOf(x) == x.v

----------------------------------------------------------------------------
(* State *)

VARIABLES
    polls,          \* Poll table: sequence of rows, the index is the pk
    questions,      \* Question table
    choices,        \* Choice table
    pollUsers,      \* PollUser table
    userChoices,    \* UserChoice table: set of <<user pk, choice pk>>
    reqs,           \* the request each worker is handling, with its locals
    resp,           \* the request answered last, and its response
    clock,          \* next value returned by timezone.now()
    sent            \* per PollUser pk: send_to_user calls made, and how many raised

vars == <<polls, questions, choices, pollUsers, userChoices, reqs, resp, clock,
          sent>>

NoPoll == [title |-> <<>>, creator |-> 0, time_start |-> None, time_end |-> None]

IdleReq ==
    [op |-> "none", pc |-> "idle", actor |-> 0, pk |-> 0, user |-> 0,
     poll |-> NoPoll, ballot |-> <<>>]

NoResp ==
    [op |-> "none", actor |-> 0, pk |-> 0, user |-> 0, result |-> "none",
     errors |-> {}]

Free(r) == reqs[r] = IdleReq

\* Worker r returns a response and is free again
Respond(r, op, actor, pk, user, result, errors) ==
    /\ reqs' = [reqs EXCEPT ![r] = IdleReq]
    /\ resp' = [op |-> op, actor |-> actor, pk |-> pk, user |-> user,
                result |-> result, errors |-> errors]

----------------------------------------------------------------------------
(* models.py *)

\* status that looks at time_end first
status_EndFirst(poll) ==
    IF poll.time_end # None THEN "FINISHED"
    ELSE IF poll.time_start = None THEN "WAITING"
    ELSE "PENDING"

status(poll) ==
    IF poll.time_start = None THEN "WAITING"
    ELSE IF poll.time_end = None THEN "PENDING"
    ELSE "FINISHED"

PollPks == 1..Len(polls)
QuestionsOf(p) == {q \in 1..Len(questions) : questions[q].poll = p}
ChoicesOf(q) == {c \in 1..Len(choices) : choices[c].question = q}
MembersOf(p) == {u \in 1..Len(pollUsers) : pollUsers[u].poll = p}
VotesOf(u) == {c \in 1..Len(choices) : <<u, c>> \in userChoices}

----------------------------------------------------------------------------
(* forms.py: PollCreationForm *)

NonEmpty(s) == s # <<>>
StripAll(cs) == [i \in 1..Len(cs) |-> Strip(cs[i])]

\* QuestionError without the test of max against the number of choices
QuestionError_NoMaxTest(q) ==
    LET text == Strip(q.question)
        chs == SelectSeq(StripAll(q.choices), NonEmpty)
        min_value == GetOr1(q.min)
        max_value == GetOr1(q.max)
    IN  IF text = <<>> THEN "empty_question"
        ELSE IF Len(chs) < 2 THEN "not_enough_choices"
        ELSE IF q.type \notin {"question", "multiple"} THEN "invalid_type"
        ELSE IF q.type = "question" THEN "ok"
        ELSE IF ~(IntOk(min_value) /\ IntOk(max_value)) THEN "invalid_min_max"
        ELSE IF \/ IntOf(min_value) < 0
                \/ IntOf(max_value) < 1
                \/ IntOf(min_value) > IntOf(max_value)
             THEN "invalid_range"
        ELSE "ok"

\* One iteration of the loop of clean_questions_data: the error code raised
\* for the question, or "ok"
QuestionError(q) ==
    LET text == Strip(q.question)
        chs == SelectSeq(StripAll(q.choices), NonEmpty)
        min_value == GetOr1(q.min)
        max_value == GetOr1(q.max)
    IN  IF text = <<>> THEN "empty_question"
        ELSE IF Len(chs) < 2 THEN "not_enough_choices"
        ELSE IF q.type \notin {"question", "multiple"} THEN "invalid_type"
        ELSE IF q.type = "question" THEN "ok"
        ELSE IF ~(IntOk(min_value) /\ IntOk(max_value)) THEN "invalid_min_max"
        ELSE IF \/ IntOf(min_value) < 0
                \/ IntOf(max_value) < 1
                \/ IntOf(min_value) > IntOf(max_value)
             THEN "invalid_range"
        ELSE IF IntOf(max_value) > Len(chs) THEN "invalid_max"
        ELSE "ok"

\* NormalizedQuestion that keeps the submitted bounds of every question
NormalizedQuestion_KeepsBounds(q) ==
    [text |-> Strip(q.question),
     type |-> q.type,
     min |-> IntOf(GetOr1(q.min)),
     max |-> IntOf(GetOr1(q.max)),
     choices |-> SelectSeq(StripAll(q.choices), NonEmpty)]

\* The normalized question appended when no error is raised
NormalizedQuestion(q) ==
    [text |-> Strip(q.question),
     type |-> q.type,
     min |-> IF q.type = "question" THEN 1 ELSE IntOf(GetOr1(q.min)),
     max |-> IF q.type = "question" THEN 1 ELSE IntOf(GetOr1(q.max)),
     choices |-> SelectSeq(StripAll(q.choices), NonEmpty)]

RECURSIVE CleanQuestionsFrom(_, _)
CleanQuestionsFrom(raw, idx) ==
    IF idx > Len(raw) THEN [code |-> "ok", value |-> <<>>]
    ELSE IF QuestionError(raw[idx]) # "ok"
         THEN [code |-> QuestionError(raw[idx]), value |-> <<>>]
    ELSE LET rest == CleanQuestionsFrom(raw, idx + 1)
         IN  IF rest.code # "ok" THEN rest
             ELSE [code |-> "ok",
                   value |-> <<NormalizedQuestion(raw[idx])>> \o rest.value]

clean_questions_data(raw) ==
    IF raw = <<>> THEN [code |-> "empty", value |-> <<>>]
    ELSE CleanQuestionsFrom(raw, 1)

DefaultName == <<"U">>      \* _("Участник")

RECURSIVE CleanParticipantsFrom(_, _, _)
CleanParticipantsFrom(raw, idx, seen_emails) ==
    IF idx > Len(raw) THEN [code |-> "ok", value |-> <<>>]
    ELSE LET email == Lower(Strip(raw[idx].email))
             name == Strip(raw[idx].name)
         IN  IF email = <<>> /\ name = <<>>
                 THEN CleanParticipantsFrom(raw, idx + 1, seen_emails)
             ELSE IF email = <<>>
                 THEN [code |-> "email_required", value |-> <<>>]
             ELSE IF email \in seen_emails
                 THEN CleanParticipantsFrom(raw, idx + 1, seen_emails)
             ELSE LET rest == CleanParticipantsFrom(raw, idx + 1,
                                                   seen_emails \cup {email})
                  IN  IF rest.code # "ok" THEN rest
                      ELSE [code |-> "ok",
                            value |-> <<[email |-> email,
                                         name |-> IF name = <<>> THEN DefaultName
                                                  ELSE name]>> \o rest.value]

clean_participants_data(raw) == CleanParticipantsFrom(raw, 1, {})

\* Error codes of the whole form (title is a required CharField)
CreationErrors(form) ==
    (IF Strip(form.title) = <<>> THEN {"required"} ELSE {})
    \cup ({clean_questions_data(form.questions_data).code} \ {"ok"})
    \cup ({clean_participants_data(form.participants_data).code} \ {"ok"})

----------------------------------------------------------------------------
(* views.py: CreatePollView.form_valid *)

QuestionRows(p, qs) ==
    [i \in 1..Len(qs) |->
        [poll |-> p, text |-> qs[i].text, type |-> qs[i].type,
         min |-> qs[i].min, max |-> qs[i].max]]

\* Choice rows of the questions qs[idx..], whose pks follow firstQ
RECURSIVE ChoiceRowsFrom(_, _, _)
ChoiceRowsFrom(qs, idx, firstQ) ==
    IF idx > Len(qs) THEN <<>>
    ELSE [i \in 1..Len(qs[idx].choices) |->
             [choice |-> qs[idx].choices[i], question |-> firstQ + idx]]
         \o ChoiceRowsFrom(qs, idx + 1, firstQ)

\* PollUserRowsFrom that also enrols the creator of the poll
RECURSIVE PollUserRowsFrom_WithCreator(_, _, _, _)
PollUserRowsFrom_WithCreator(p, participants, idx, existing_emails) ==
    IF idx > Len(participants)
    THEN <<[poll |-> p, email |-> <<"c">>, name |-> <<"c">>, is_voted |-> FALSE]>>
    ELSE LET email == Lower(Strip(participants[idx].email))
         IN  IF email \in existing_emails
                 THEN PollUserRowsFrom_WithCreator(p, participants, idx + 1,
                                                   existing_emails)
             ELSE <<[poll |-> p, email |-> email,
                     name |-> participants[idx].name, is_voted |-> FALSE]>>
                  \o PollUserRowsFrom_WithCreator(p, participants, idx + 1,
                                                  existing_emails \cup {email})

\* The second de-duplication by e-mail, done in the view
RECURSIVE PollUserRowsFrom(_, _, _, _)
PollUserRowsFrom(p, participants, idx, existing_emails) ==
    IF idx > Len(participants) THEN <<>>
    ELSE LET email == Lower(Strip(participants[idx].email))
         IN  IF email \in existing_emails
                 THEN PollUserRowsFrom(p, participants, idx + 1, existing_emails)
             ELSE <<[poll |-> p, email |-> email,
                     name |-> participants[idx].name, is_voted |-> FALSE]>>
                  \o PollUserRowsFrom(p, participants, idx + 1,
                                      existing_emails \cup {email})

NoMail(n) == [i \in 1..n |-> [tried |-> 0, failed |-> 0]]

\* Submissions of the creation form that the model explores
QSingle ==
    [question |-> <<"a">>, type |-> "question",
     choices |-> <<<<"a">>, <<"b">>>>, min |-> JInt(0), max |-> JInt(5)]
QMulti ==
    [question |-> <<"b">>, type |-> "multiple",
     choices |-> <<<<"a">>, <<" ">>, <<"b">>>>, min |-> JInt(0), max |-> JInt(2)]
QOneChoice ==
    [question |-> <<"a">>, type |-> "question",
     choices |-> <<<<"a">>, <<" ">>>>, min |-> JInt(1), max |-> JInt(1)]
Alice == [email |-> <<"a">>, name |-> <<"a">>]
AliceUpper == [email |-> <<" ", "A">>, name |-> <<"b">>]
Bob == [email |-> <<"b">>, name |-> <<>>]

PollForms ==
    {[title |-> <<"a">>, questions_data |-> <<QSingle, QMulti>>,
      participants_data |-> <<Alice, AliceUpper, Bob>>],
     [title |-> <<"a">>, questions_data |-> <<QSingle, QOneChoice>>,
      participants_data |-> <<Alice>>]}

\* The response to a creation request, logged with the form it carried:
\* form_invalid renders the bound form again, form_valid redirects to the
\* page of the new poll
Answer(r, actor, pk, form, result, errors) ==
    /\ reqs' = [reqs EXCEPT ![r] = IdleReq]
    /\ resp' = [op |-> "create", actor |-> actor, pk |-> pk, user |-> 0,
                result |-> result, errors |-> errors, form |-> form]

\* CreatePoll whose Poll row is written before the form is validated and
\* outside the transaction
CreatePoll_NoRollback(r, actor, form) ==
    /\ Free(r)
    /\ LET errors == CreationErrors(form)
           p == Len(polls) + 1
           qs == clean_questions_data(form.questions_data).value
           ps == clean_participants_data(form.participants_data).value
           members == PollUserRowsFrom(p, ps, 1, {})
       IN  /\ polls' = Append(polls, [title |-> Strip(form.title),
                                      creator |-> actor,
                                      time_start |-> None,
                                      time_end |-> None])
           /\ IF errors # {}
              THEN /\ Answer(r, actor, 0, form, "Invalid", errors)
                   /\ UNCHANGED <<questions, choices, pollUsers, sent>>
              ELSE /\ questions' = questions \o QuestionRows(p, qs)
                   /\ choices' = choices \o ChoiceRowsFrom(qs, 1, Len(questions))
                   /\ pollUsers' = pollUsers \o members
                   /\ sent' = sent \o NoMail(Len(members))
                   /\ Answer(r, actor, p, form, "ok", {})
    /\ UNCHANGED <<userChoices, clock>>

CreatePoll(r, actor, form) ==
    /\ Free(r)
    /\ LET errors == CreationErrors(form)
           p == Len(polls) + 1
           qs == clean_questions_data(form.questions_data).value
           ps == clean_participants_data(form.participants_data).value
           members == PollUserRowsFrom(p, ps, 1, {})
       IN  IF errors # {}
           THEN /\ Answer(r, actor, 0, form, "Invalid", errors)
                /\ UNCHANGED <<polls, questions, choices, pollUsers, sent>>
           ELSE /\ polls' = Append(polls, [title |-> Strip(form.title),
                                           creator |-> actor,
                                           time_start |-> None,
                                           time_end |-> None])
                /\ questions' = questions \o QuestionRows(p, qs)
                /\ choices' = choices \o ChoiceRowsFrom(qs, 1, Len(questions))
                /\ pollUsers' = pollUsers \o members
                /\ sent' = sent \o NoMail(Len(members))
                /\ Answer(r, actor, p, form, "ok", {})
    /\ UNCHANGED <<userChoices, clock>>

----------------------------------------------------------------------------
(* views.py: StartPollView.post *)

\* OwnPoll without the filter creator=organization_user
OwnPoll_AnyMember(actor, pk) == pk \in PollPks

\* get_object_or_404(Poll.objects.filter(creator=organization_user), pk=...)
OwnPoll(actor, pk) == pk \in PollPks /\ polls[pk].creator = actor

\* StartPost that tests time_end where the view tests time_start
StartPost_TestsEnd(r, actor, pk) ==
    /\ Free(r)
    /\ IF ~OwnPoll(actor, pk)
           THEN Respond(r, "start", actor, pk, 0, "NotFound", {})
       ELSE IF polls[pk].time_end # None
           THEN Respond(r, "start", actor, pk, 0, "AlreadyStarted", {})
       ELSE /\ reqs' = [reqs EXCEPT ![r] =
                  [IdleReq EXCEPT !.op = "start", !.pc = "save",
                                  !.actor = actor, !.pk = pk, !.poll = polls[pk]]]
            /\ UNCHANGED resp
    /\ UNCHANGED <<polls, questions, choices, pollUsers, userChoices, clock, sent>>

\* Lines 398-407: resolve the poll and test time_start on the copy just read
StartPost(r, actor, pk) ==
    /\ Free(r)
    /\ IF ~OwnPoll(actor, pk)
           THEN Respond(r, "start", actor, pk, 0, "NotFound", {})
       ELSE IF polls[pk].time_start # None
           THEN Respond(r, "start", actor, pk, 0, "AlreadyStarted", {})
       ELSE /\ reqs' = [reqs EXCEPT ![r] =
                  [IdleReq EXCEPT !.op = "start", !.pc = "save",
                                  !.actor = actor, !.pk = pk, !.poll = polls[pk]]]
            /\ UNCHANGED resp
    /\ UNCHANGED <<polls, questions, choices, pollUsers, userChoices, clock, sent>>

\* StartSave without the try / except around send_to_user: the first send
\* that raises ends the loop and the request
StartSave_StopsAtFailure(r, failing) ==
    /\ reqs[r].op = "start" /\ reqs[r].pc = "save"
    /\ clock <= MaxClock
    /\ polls' = [polls EXCEPT ![reqs[r].pk] =
                    [reqs[r].poll EXCEPT !.time_start = clock]]
    /\ clock' = clock + 1
    /\ LET raised == failing \cap MembersOf(reqs[r].pk)
           reached(u) == \A v \in raised : u <= v
       IN  /\ sent' = [u \in 1..Len(sent) |->
                          IF u \notin MembersOf(reqs[r].pk) \/ ~reached(u)
                          THEN sent[u]
                          ELSE [tried |-> sent[u].tried + 1,
                                failed |-> sent[u].failed +
                                           (IF u \in failing THEN 1 ELSE 0)]]
           /\ Respond(r, "start", reqs[r].actor, reqs[r].pk, 0,
                      IF raised = {} THEN "ok" ELSE "ServerError", {})
    /\ UNCHANGED <<questions, choices, pollUsers, userChoices>>

\* Lines 409-439: poll.save() writes every column of the copy held by the
\* request, then one send_to_user per member; a send that raises (for the
\* members in failing) is caught and the loop goes on
StartSave(r, failing) ==
    /\ reqs[r].op = "start" /\ reqs[r].pc = "save"
    /\ clock <= MaxClock
    /\ polls' = [polls EXCEPT ![reqs[r].pk] =
                    [reqs[r].poll EXCEPT !.time_start = clock]]
    /\ clock' = clock + 1
    /\ sent' = [u \in 1..Len(sent) |->
                   IF u \notin MembersOf(reqs[r].pk) THEN sent[u]
                   ELSE [tried |-> sent[u].tried + 1,
                         failed |-> sent[u].failed +
                                    (IF u \in failing THEN 1 ELSE 0)]]
    /\ Respond(r, "start", reqs[r].actor, reqs[r].pk, 0, "ok", {})
    /\ UNCHANGED <<questions, choices, pollUsers, userChoices>>

----------------------------------------------------------------------------
(* views.py: EndPollView.post *)

\* EndPost without the test of time_end
EndPost_NoTest(r, actor, pk) ==
    /\ Free(r)
    /\ IF ~OwnPoll(actor, pk)
           THEN Respond(r, "end", actor, pk, 0, "NotFound", {})
       ELSE /\ reqs' = [reqs EXCEPT ![r] =
                  [IdleReq EXCEPT !.op = "end", !.pc = "save",
                                  !.actor = actor, !.pk = pk, !.poll = polls[pk]]]
            /\ UNCHANGED resp
    /\ UNCHANGED <<polls, questions, choices, pollUsers, userChoices, clock, sent>>

\* Lines 470-479: resolve the poll and test time_end on the copy just read
EndPost(r, actor, pk) ==
    /\ Free(r)
    /\ IF ~OwnPoll(actor, pk)
           THEN Respond(r, "end", actor, pk, 0, "NotFound", {})
       ELSE IF polls[pk].time_end # None
           THEN Respond(r, "end", actor, pk, 0, "AlreadyEnded", {})
       ELSE /\ reqs' = [reqs EXCEPT ![r] =
                  [IdleReq EXCEPT !.op = "end", !.pc = "save",
                                  !.actor = actor, !.pk = pk, !.poll = polls[pk]]]
            /\ UNCHANGED resp
    /\ UNCHANGED <<polls, questions, choices, pollUsers, userChoices, clock, sent>>

\* Lines 481-489: poll.save() writes every column of the copy held
EndSave(r) ==
    /\ reqs[r].op = "end" /\ reqs[r].pc = "save"
    /\ clock <= MaxClock
    /\ polls' = [polls EXCEPT ![reqs[r].pk] =
                    [reqs[r].poll EXCEPT !.time_end = clock]]
    /\ clock' = clock + 1
    /\ Respond(r, "end", reqs[r].actor, reqs[r].pk, 0, "ok", {})
    /\ UNCHANGED <<questions, choices, pollUsers, userChoices, sent>>

----------------------------------------------------------------------------
(* forms.py: VoteForm.  A ballot maps the pk of a question to the sequence *)
(* of values posted for its field question_<pk>.                           *)

Last(vals) == vals[Len(vals)]
HasDuplicates(vals) == \E i, j \in 1..Len(vals) : i # j /\ vals[i] = vals[j]

\* FieldError of fields that accept the pk of any stored choice
FieldError_AnyChoice(q, vals) ==
    IF questions[q].type = "question"
    THEN IF vals = <<>> THEN "required"
         ELSE IF Last(vals) \notin 1..Len(choices) THEN "invalid_choice"
         ELSE "ok"
    ELSE IF vals = <<>> THEN (IF questions[q].min > 0 THEN "required" ELSE "ok")
         ELSE IF \E i \in 1..Len(vals) : vals[i] \notin 1..Len(choices)
              THEN "invalid_choice"
         ELSE "ok"

\* ChoiceField / MultipleChoiceField built in __init__: the error of a field
FieldError(q, vals) ==
    IF questions[q].type = "question"
    THEN IF vals = <<>> THEN "required"
         ELSE IF Last(vals) \notin ChoicesOf(q) THEN "invalid_choice"
         ELSE "ok"
    ELSE IF vals = <<>> THEN (IF questions[q].min > 0 THEN "required" ELSE "ok")
         ELSE IF \E i \in 1..Len(vals) : vals[i] \notin ChoicesOf(q)
              THEN "invalid_choice"
         ELSE "ok"

\* cleaned_data.get(field_name), as the sequence of selected choice pks
\* (empty when the field is absent from cleaned_data or nothing is selected)
Cleaned(q, vals) ==
    IF FieldError(q, vals) # "ok" THEN <<>>
    ELSE IF questions[q].type = "question" THEN <<Last(vals)>>
    ELSE vals

\* VoteForm.clean: the first question, in pk order, that raises
RECURSIVE CleanFrom(_, _, _)
CleanFrom(p, ballot, q) ==
    IF q > Len(questions) THEN "ok"
    ELSE IF questions[q].poll # p \/ questions[q].type # "multiple"
         THEN CleanFrom(p, ballot, q + 1)
    ELSE LET selected_count == Len(Cleaned(q, ballot[q]))
         IN  IF questions[q].min > 0 /\ selected_count < questions[q].min
                 THEN "min_choices"
             ELSE IF selected_count > questions[q].max THEN "max_choices"
             ELSE CleanFrom(p, ballot, q + 1)

BallotErrors(p, ballot) ==
    ({FieldError(q, ballot[q]) : q \in QuestionsOf(p)}
        \cup {CleanFrom(p, ballot, 1)}) \ {"ok"}

----------------------------------------------------------------------------
(* views.py: VoteView *)

\* Resolves that looks the participant up without the filter poll=poll
Resolves_AnyPoll(poll_url, user_url) ==
    poll_url \in PollPks /\ user_url \in 1..Len(pollUsers)

\* get_poll_and_user: both opaque identifiers resolve, the user to a
\* member of that poll (a url is identified with the pk of its row)
Resolves(poll_url, user_url) ==
    poll_url \in PollPks /\ user_url \in MembersOf(poll_url)

\* Lines 576-599: the UserChoice objects collected from cleaned_data
SelectedCount(p, ballot, c) ==
    Cardinality({<<q, i>> \in QuestionsOf(p) \X (1..Len(choices)) :
                    /\ i <= Len(Cleaned(q, ballot[q]))
                    /\ Cleaned(q, ballot[q])[i] = c})
SelectedChoices(p, ballot) ==
    {c \in 1..Len(choices) : SelectedCount(p, ballot, c) > 0}

\* Lines 604-618
all_required_answered(p, ballot) ==
    \A q \in QuestionsOf(p) :
        IF questions[q].type = "question"
        THEN Cleaned(q, ballot[q]) # <<>>
        ELSE ~(questions[q].min > 0 /\ Cleaned(q, ballot[q]) = <<>>)

\* bulk_create fails on uniq_choice_user: a row that is already stored, or
\* the same (choice, user) twice in the batch
ViolatesUnique(u, p, ballot) ==
    \/ \E c \in SelectedChoices(p, ballot) : <<u, c>> \in userChoices
    \/ \E c \in SelectedChoices(p, ballot) : SelectedCount(p, ballot, c) > 1

MaxSel == 2         \* values posted for one field
AnswerChoices(q) == ChoicesOf(q)
Answers(q) ==
    UNION {[1..n -> AnswerChoices(q)] : n \in 0..MaxSel}
Ballots(p) ==
    LET answers == [q \in QuestionsOf(p) |-> Answers(q)]
    IN  {b \in [DOMAIN answers -> UNION {answers[q] : q \in DOMAIN answers}] :
            \A q \in DOMAIN answers : b[q] \in answers[q]}
PollUrls == 1..MaxPolls
UserUrls == 1..(Len(pollUsers) + 1)

\* VoteDispatch without the test of the poll's status
VoteDispatch_NoStatusTest(r, poll_url, user_url, ballot) ==
    /\ Free(r)
    /\ IF ~Resolves(poll_url, user_url)
           THEN Respond(r, "vote", 0, poll_url, user_url, "NotFound", {})
       ELSE IF pollUsers[user_url].is_voted
           THEN Respond(r, "vote", 0, poll_url, user_url, "AlreadyVoted", {})
       ELSE /\ reqs' = [reqs EXCEPT ![r] =
                  [IdleReq EXCEPT !.op = "vote", !.pc = "form", !.pk = poll_url,
                                  !.user = user_url, !.ballot = ballot]]
            /\ UNCHANGED resp
    /\ UNCHANGED <<polls, questions, choices, pollUsers, userChoices, clock, sent>>

\* VoteDispatch that tests the poll's status before is_voted
VoteDispatch_StatusFirst(r, poll_url, user_url, ballot) ==
    /\ Free(r)
    /\ IF ~Resolves(poll_url, user_url)
           THEN Respond(r, "vote", 0, poll_url, user_url, "NotFound", {})
       ELSE IF status(polls[poll_url]) # "PENDING"
           THEN Respond(r, "vote", 0, poll_url, user_url, "PollNotActive", {})
       ELSE IF pollUsers[user_url].is_voted
           THEN Respond(r, "vote", 0, poll_url, user_url, "AlreadyVoted", {})
       ELSE /\ reqs' = [reqs EXCEPT ![r] =
                  [IdleReq EXCEPT !.op = "vote", !.pc = "form", !.pk = poll_url,
                                  !.user = user_url, !.ballot = ballot]]
            /\ UNCHANGED resp
    /\ UNCHANGED <<polls, questions, choices, pollUsers, userChoices, clock, sent>>

\* Lines 545-559: dispatch of a POST
VoteDispatch(r, poll_url, user_url, ballot) ==
    /\ Free(r)
    /\ IF ~Resolves(poll_url, user_url)
           THEN Respond(r, "vote", 0, poll_url, user_url, "NotFound", {})
       ELSE IF pollUsers[user_url].is_voted
           THEN Respond(r, "vote", 0, poll_url, user_url, "AlreadyVoted", {})
       ELSE IF status(polls[poll_url]) # "PENDING"
           THEN Respond(r, "vote", 0, poll_url, user_url, "PollNotActive", {})
       ELSE /\ reqs' = [reqs EXCEPT ![r] =
                  [IdleReq EXCEPT !.op = "vote", !.pc = "form", !.pk = poll_url,
                                  !.user = user_url, !.ballot = ballot]]
            /\ UNCHANGED resp
    /\ UNCHANGED <<polls, questions, choices, pollUsers, userChoices, clock, sent>>

\* VoteFormValid that goes on to save whatever form.is_valid() found
VoteFormValid_SkipsClean(r) ==
    /\ reqs[r].op = "vote" /\ reqs[r].pc = "form"
    /\ LET p == reqs[r].pk
           u == reqs[r].user
       IN  IF status(polls[p]) # "PENDING"
               THEN Respond(r, "vote", 0, p, u, "PollNotActive", {})
           ELSE IF pollUsers[u].is_voted
               THEN Respond(r, "vote", 0, p, u, "AlreadyVoted", {})
           ELSE /\ reqs' = [reqs EXCEPT ![r].pc = "commit"]
                /\ UNCHANGED resp
    /\ UNCHANGED <<polls, questions, choices, pollUsers, userChoices, clock, sent>>

\* FormView.post: form.is_valid(), then lines 561-572 of form_valid, which
\* read the poll and the member again
VoteFormValid(r) ==
    /\ reqs[r].op = "vote" /\ reqs[r].pc = "form"
    /\ LET p == reqs[r].pk
           u == reqs[r].user
           errors == BallotErrors(p, reqs[r].ballot)
       IN  IF errors # {}
               THEN Respond(r, "vote", 0, p, u, "Invalid", errors)
           ELSE IF status(polls[p]) # "PENDING"
               THEN Respond(r, "vote", 0, p, u, "PollNotActive", {})
           ELSE IF pollUsers[u].is_voted
               THEN Respond(r, "vote", 0, p, u, "AlreadyVoted", {})
           ELSE /\ reqs' = [reqs EXCEPT ![r].pc = "commit"]
                /\ UNCHANGED resp
    /\ UNCHANGED <<polls, questions, choices, pollUsers, userChoices, clock, sent>>

\* VoteCommit that stores the rows but never saves is_voted
VoteCommit_NoFlag(r) ==
    /\ reqs[r].op = "vote" /\ reqs[r].pc = "commit"
    /\ LET p == reqs[r].pk
           u == reqs[r].user
           b == reqs[r].ballot
       IN  IF ~all_required_answered(p, b)
           THEN /\ Respond(r, "vote", 0, p, u, "Invalid", {"unanswered"})
                /\ UNCHANGED <<userChoices, pollUsers>>
           ELSE IF ViolatesUnique(u, p, b)
           THEN /\ Respond(r, "vote", 0, p, u, "IntegrityError", {})
                /\ UNCHANGED <<userChoices, pollUsers>>
           ELSE /\ userChoices' = userChoices \cup
                      {<<u, c>> : c \in SelectedChoices(p, b)}
                /\ UNCHANGED pollUsers
                /\ Respond(r, "vote", 0, p, u, "ok", {})
    /\ UNCHANGED <<polls, questions, choices, clock, sent>>

\* Lines 575-632: the transaction.atomic() block; an IntegrityError raised
\* by bulk_create rolls the block back and propagates out of the view
VoteCommit(r) ==
    /\ reqs[r].op = "vote" /\ reqs[r].pc = "commit"
    /\ LET p == reqs[r].pk
           u == reqs[r].user
           b == reqs[r].ballot
       IN  IF ~all_required_answered(p, b)
           THEN /\ Respond(r, "vote", 0, p, u, "Invalid", {"unanswered"})
                /\ UNCHANGED <<userChoices, pollUsers>>
           ELSE IF ViolatesUnique(u, p, b)
           THEN /\ Respond(r, "vote", 0, p, u, "IntegrityError", {})
                /\ UNCHANGED <<userChoices, pollUsers>>
           ELSE /\ userChoices' = userChoices \cup
                      {<<u, c>> : c \in SelectedChoices(p, b)}
                /\ pollUsers' = [pollUsers EXCEPT ![u].is_voted = TRUE]
                /\ Respond(r, "vote", 0, p, u, "ok", {})
    /\ UNCHANGED <<polls, questions, choices, clock, sent>>

----------------------------------------------------------------------------
(* views.py: calculate_poll_results and the two pages that show it *)

\* No questions_with_results in the context (calculate_poll_results: None)
Unavailable == [available |-> FALSE]

\* calculate_poll_results that lists only the choices somebody selected
calculate_poll_results_VotedOnly(p) ==
    IF polls[p].time_end = None THEN Unavailable
    ELSE [available |-> TRUE,
          counts |-> [q \in QuestionsOf(p) |->
                        [c \in {d \in ChoicesOf(q) :
                                   \E row \in userChoices : row[2] = d} |->
                            Cardinality({row \in userChoices : row[2] = c})]]]

\* Lines 26-47: None without time_end, else every choice of every question
\* with UserChoice.objects.filter(choice=choice).count()
calculate_poll_results(p) ==
    IF polls[p].time_end = None THEN Unavailable
    ELSE [available |-> TRUE,
          counts |-> [q \in QuestionsOf(p) |->
                        [c \in ChoicesOf(q) |->
                            Cardinality({row \in userChoices : row[2] = c})]]]

\* HistoryDetailView.get_context_data, lines 342-344: tests time_end
HistoryDetailResults(p) ==
    IF polls[p].time_end # None THEN calculate_poll_results(p) ELSE Unavailable

\* VoteView.get_context_data, lines 539-541: tests the status
VoteViewResults(p) ==
    IF status(polls[p]) = "FINISHED" THEN calculate_poll_results(p)
    ELSE Unavailable

----------------------------------------------------------------------------------------------------------------------------------------------
(* The system *)

Init ==
    /\ polls = <<>>
    /\ questions = <<>>
    /\ choices = <<>>
    /\ pollUsers = <<>>
    /\ userChoices = {}
    /\ reqs = [r \in Workers |-> IdleReq]
    /\ resp = NoResp
    /\ clock = 1
    /\ sent = <<>>

PostedBallots(poll_url, user_url) ==
    IF Resolves(poll_url, user_url) THEN Ballots(poll_url) ELSE {<<>>}

\* The creator's requests (create, start, end), interleaved in every way
LifeNext ==
    \/ \E r \in Workers, actor \in Creators, form \in PollForms :
          /\ Len(polls) < MaxPolls \/ CreationErrors(form) # {}
          /\ CreatePoll(r, actor, form)
    \/ \E r \in Workers, actor \in OrgUsers, pk \in PollUrls : StartPost(r, actor, pk)
    \/ \E r \in Workers, failing \in SUBSET (1..Len(pollUsers)) :
          StartSave(r, failing)
    \/ \E r \in Workers, actor \in OrgUsers, pk \in PollUrls : EndPost(r, actor, pk)
    \/ \E r \in Workers : EndSave(r)

LifeSpec == Init /\ [][LifeNext]_vars

\* Around a single poll: vote requests interleaved in every way with each
\* other and with the requests of a creator who sends one request at a time
CreatorWorkers == {1}
RaceForms ==
    {[title |-> <<"a">>, questions_data |-> <<QSingle>>,
      participants_data |-> <<Alice, AliceUpper>>]}

VoteNext ==
    \/ \E r \in CreatorWorkers, actor \in Creators, form \in RaceForms :
          polls = <<>> /\ CreatePoll(r, actor, form)
    \/ \E r \in CreatorWorkers, actor \in OrgUsers, pk \in PollUrls :
          StartPost(r, actor, pk)
    \/ \E r \in CreatorWorkers : StartSave(r, {})
    \/ \E r \in CreatorWorkers, actor \in OrgUsers, pk \in PollUrls :
          EndPost(r, actor, pk)
    \/ \E r \in CreatorWorkers : EndSave(r)
    \/ \E r \in Workers, poll_url \in PollUrls, user_url \in UserUrls :
          \E ballot \in PostedBallots(poll_url, user_url) :
              VoteDispatch(r, poll_url, user_url, ballot)
    \/ \E r \in Workers : VoteFormValid(r)
    \/ \E r \in Workers : VoteCommit(r)

VoteSpec == Init /\ [][VoteNext]_vars

\* One request at a time, of any kind, around a single poll
SeqWorkers == {1}

SeqNext ==
    \/ \E r \in SeqWorkers, actor \in Creators, form \in PollForms :
          polls = <<>> /\ CreatePoll(r, actor, form)
    \/ \E r \in SeqWorkers, actor \in OrgUsers, pk \in PollUrls :
          StartPost(r, actor, pk)
    \/ \E r \in SeqWorkers : StartSave(r, {})
    \/ \E r \in SeqWorkers, actor \in OrgUsers, pk \in PollUrls :
          EndPost(r, actor, pk)
    \/ \E r \in SeqWorkers : EndSave(r)
    \/ \E r \in SeqWorkers, poll_url \in PollUrls, user_url \in UserUrls :
          \E ballot \in PostedBallots(poll_url, user_url) :
              VoteDispatch(r, poll_url, user_url, ballot)
    \/ \E r \in SeqWorkers : VoteFormValid(r)
    \/ \E r \in SeqWorkers : VoteCommit(r)

SeqSpec == Init /\ [][SeqNext]_vars

\* One request at a time around a single PENDING or WAITING poll whose
\* multi-choice question allows 0..2 or exactly 1 selections
QMultiOne ==
    [question |-> <<"b">>, type |-> "multiple",
     choices |-> <<<<"a">>, <<"b">>>>, min |-> JNumStr(1), max |-> JInt(1)]
BallotForms ==
    {[title |-> <<"a">>, questions_data |-> <<QSingle, QMulti>>,
      participants_data |-> <<Alice>>],
     [title |-> <<"a">>, questions_data |-> <<QSingle, QMultiOne>>,
      participants_data |-> <<Alice>>]}

BallotNext ==
    \/ \E r \in SeqWorkers, actor \in Creators, form \in BallotForms :
          polls = <<>> /\ CreatePoll(r, actor, form)
    \/ \E r \in SeqWorkers, actor \in OrgUsers, pk \in PollUrls :
          StartPost(r, actor, pk)
    \/ \E r \in SeqWorkers : StartSave(r, {})
    \/ \E r \in SeqWorkers, poll_url \in PollUrls, user_url \in UserUrls :
          \E ballot \in PostedBallots(poll_url, user_url) :
              VoteDispatch(r, poll_url, user_url, ballot)
    \/ \E r \in SeqWorkers : VoteFormValid(r)
    \/ \E r \in SeqWorkers : VoteCommit(r)

BallotSpec == Init /\ [][BallotNext]_vars

\* One request at a time around several polls, each with one participant;
\* the identifiers of a vote request range over every poll and participant
\* and over one value that names no row
MaxAddressed == 2   \* polls that exist together
AnyPollUrls == 1..(Len(polls) + 1)
AddressForms ==
    {[title |-> <<"a">>, questions_data |-> <<QSingle>>,
      participants_data |-> <<Alice>>]}

AddressNext ==
    \/ \E r \in SeqWorkers, actor \in Creators, form \in AddressForms :
          Len(polls) < MaxAddressed /\ CreatePoll(r, actor, form)
    \/ \E r \in SeqWorkers, actor \in Creators, pk \in AnyPollUrls :
          StartPost(r, actor, pk)
    \/ \E r \in SeqWorkers : StartSave(r, {})
    \/ \E r \in SeqWorkers, poll_url \in AnyPollUrls, user_url \in UserUrls :
          \E ballot \in PostedBallots(poll_url, user_url) :
              VoteDispatch(r, poll_url, user_url, ballot)
    \/ \E r \in SeqWorkers : VoteFormValid(r)
    \/ \E r \in SeqWorkers : VoteCommit(r)

AddressSpec == Init /\ [][AddressNext]_vars

\* One request at a time around two polls, one of two questions and one of
\* a single question, each created once; the values posted for a field
\* range over the choices of its question and one choice of another
\* question (of the same poll when that was created first, else of the
\* other poll)
MaxCross == 1       \* values posted for one field
CrossForms ==
    {[title |-> <<"a">>, questions_data |-> <<QSingle, QMulti>>,
      participants_data |-> <<Alice>>],
     [title |-> <<"b">>, questions_data |-> <<QSingle>>,
      participants_data |-> <<Alice>>]}
ForeignChoices(q) ==
    LET foreign == (1..Len(choices)) \ ChoicesOf(q)
    IN  {c \in foreign : \A d \in foreign : c <= d}
CrossAnswers(q) ==
    UNION {[1..n -> ChoicesOf(q) \cup ForeignChoices(q)] : n \in 0..MaxCross}
CrossBallots(p) ==
    LET answers == [q \in QuestionsOf(p) |-> CrossAnswers(q)]
    IN  {b \in [DOMAIN answers -> UNION {answers[q] : q \in DOMAIN answers}] :
            \A q \in DOMAIN answers : b[q] \in answers[q]}
PostedCrossBallots(poll_url, user_url) ==
    IF Resolves(poll_url, user_url) THEN CrossBallots(poll_url) ELSE {<<>>}

CrossNext ==
    \/ \E r \in SeqWorkers, actor \in Creators, form \in CrossForms :
          /\ \A p \in PollPks : polls[p].title # form.title
          /\ CreatePoll(r, actor, form)
    \/ \E r \in SeqWorkers, actor \in Creators, pk \in 1..Len(polls) :
          StartPost(r, actor, pk)
    \/ \E r \in SeqWorkers : StartSave(r, {})
    \/ \E r \in SeqWorkers, poll_url \in 1..Len(polls), user_url \in UserUrls :
          \E ballot \in PostedCrossBallots(poll_url, user_url) :
              VoteDispatch(r, poll_url, user_url, ballot)
    \/ \E r \in SeqWorkers : VoteFormValid(r)
    \/ \E r \in SeqWorkers : VoteCommit(r)

CrossSpec == Init /\ [][CrossNext]_vars

\* Creation requests only.  On the empty store the form carries one question
\* with every combination of kind, choice list and submitted min / max, or
\* one of a few forms that fail for another reason; later forms are drawn
\* from PollForms
MaxValue == 5       \* largest integer submitted for min / max
Scalars ==
    {JInt(n) : n \in -1..MaxValue} \cup {JNumStr(2), JNaN, JNull, JMissing}
ChoiceLists ==
    {<<<<"a">>, <<"b">>>>, <<<<"a">>, <<" ">>, <<"b">>, <<" ", "b">>>>}
RawQuestions ==
    [question : {<<"a">>}, type : {"question", "multiple"},
     choices : ChoiceLists, min : Scalars, max : Scalars]
QBlank ==
    [question |-> <<" ">>, type |-> "question",
     choices |-> <<<<"a">>, <<"b">>>>, min |-> JInt(1), max |-> JInt(1)]
QBadType ==
    [question |-> <<"a">>, type |-> "x",
     choices |-> <<<<"a">>, <<"b">>>>, min |-> JInt(1), max |-> JInt(1)]
NameOnly == [email |-> <<" ">>, name |-> <<"b">>]
Blank == [email |-> <<" ">>, name |-> <<>>]
RawForms ==
    {[title |-> <<"a">>, questions_data |-> <<q>>,
      participants_data |-> <<Alice>>] : q \in RawQuestions}
    \cup [title : {<<"a">>},
          questions_data : {<<QSingle, QOneChoice>>, <<QOneChoice, QSingle>>,
                            <<QMulti, QBlank>>, <<QSingle, QBadType>>,
                            <<QSingle, QMulti>>, <<>>},
          participants_data : {<<Alice>>, <<Alice, NameOnly>>,
                               <<Alice, Blank>>, <<Bob, Alice, AliceUpper>>}]
    \cup {[title |-> <<" ">>, questions_data |-> <<QSingle>>,
           participants_data |-> <<Alice>>]}

CreateNext ==
    \E r \in SeqWorkers, actor \in Creators :
        \E form \in (IF polls = <<>> THEN RawForms ELSE PollForms) :
            /\ Len(polls) < MaxPolls \/ CreationErrors(form) # {}
            /\ CreatePoll(r, actor, form)

CreateSpec == Init /\ [][CreateNext]_vars

----------------------------------------------------------------------------
(* Steps of a request, as seen in a pair of states *)

\* Worker r took a request op for poll p that passed its first checks
GoesInFlight(r, op, p) == Free(r) /\ reqs'[r].op = op /\ reqs'[r].pk = p
\* A request op for poll p was answered in the step that received it
AnsweredAtOnce(op, p) ==
    reqs' = reqs /\ resp' # resp /\ resp'.op = op /\ resp'.pk = p
\* The request op held by worker r returns its response
Finishes(r, op) == reqs[r].op = op /\ reqs'[r] = IdleReq

----------------------------------------------------------------------------
(* Poll lifecycle *)

\* C1: a poll whose status is FINISHED keeps that status in every later
\* state, whatever start, end and vote requests are interleaved.
C1_FinishedIsTerminal ==
    [][\A p \in PollPks :
          status(polls[p]) = "FINISHED" => status(polls'[p]) = "FINISHED"]_vars

\* C2: in every reachable state, a poll with time_end set has time_start set.
C2_EndImpliesStart ==
    \A p \in PollPks : polls[p].time_end # None => polls[p].time_start # None

\* C3: an end request of the creator that finds the poll WAITING (time_start
\* unset) is answered NotStarted, never goes on to save, and time_end stays
\* unset.
C3_EndOfWaitingFails ==
    [][\A p \in PollPks :
          polls[p].time_start = None =>
              /\ \A r \in Workers : ~GoesInFlight(r, "end", p)
              /\ (AnsweredAtOnce("end", p) /\ resp'.actor = polls[p].creator)
                     => resp'.result = "NotStarted"
              /\ polls[p].time_end = None => polls'[p].time_end = None]_vars

\* C4: a start request of the creator that finds time_start already set is
\* answered AlreadyStarted in that same step, never goes on to save, and
\* the step changes no poll and sends no notification.
C4_StartOfStartedFails ==
    [][\A p \in PollPks :
          polls[p].time_start # None =>
              /\ \A r \in Workers : ~GoesInFlight(r, "start", p)
              /\ (AnsweredAtOnce("start", p) /\ resp'.actor = polls[p].creator)
                     => /\ resp'.result = "AlreadyStarted"
                        /\ polls' = polls
                        /\ sent' = sent]_vars

C4_Witness ==
    /\ resp.op = "start" /\ resp.result = "AlreadyStarted"
    /\ resp.pk \in PollPks
    /\ polls[resp.pk].time_start # None
    /\ resp.actor = polls[resp.pk].creator

\* C5: an end request of the creator that finds time_end already set is
\* answered AlreadyEnded in that same step, never goes on to save, and the
\* step changes no poll.
C5_EndOfEndedFails ==
    [][\A p \in PollPks :
          polls[p].time_end # None =>
              /\ \A r \in Workers : ~GoesInFlight(r, "end", p)
              /\ (AnsweredAtOnce("end", p) /\ resp'.actor = polls[p].creator)
                     => /\ resp'.result = "AlreadyEnded"
                        /\ polls' = polls]_vars

C5_Witness ==
    /\ resp.op = "end" /\ resp.result = "AlreadyEnded"
    /\ resp.pk \in PollPks
    /\ polls[resp.pk].time_end # None
    /\ resp.actor = polls[resp.pk].creator

\* C6: of the start requests on one poll at most one succeeds: a start
\* request returns success only on a poll whose time_start is still unset,
\* so that a time_start that is set is never overwritten.
C6_OnlyOneStartSucceeds ==
    [][\A r \in Workers :
          (Finishes(r, "start") /\ resp'.result = "ok")
              => polls[reqs[r].pk].time_start = None]_vars

\* C7: status is WAITING iff time_start is unset, PENDING iff time_start is
\* set and time_end is not, FINISHED iff both are set; the Poll row has no
\* status column.
C7_StatusIsDerived ==
    \A p \in PollPks :
        /\ status(polls[p]) = "WAITING" <=> polls[p].time_start = None
        /\ status(polls[p]) = "PENDING" <=>
               (polls[p].time_start # None /\ polls[p].time_end = None)
        /\ status(polls[p]) = "FINISHED" <=>
               (polls[p].time_start # None /\ polls[p].time_end # None)
        /\ "status" \notin DOMAIN polls[p]

C7_Witness ==
    \E p \in PollPks :
        /\ polls[p].time_start = None /\ polls[p].time_end # None
        /\ status(polls[p]) = "WAITING"

----------------------------------------------------------------------------
(* Vote submission *)

\* The rows of participant u after the step
VotesAfter(u) == {c \in 1..Len(choices') : <<u, c>> \in userChoices'}

\* A ballot as the specification understands it: one choice of the question
\* for a single-kind question, between min and max distinct choices of the
\* question for a multi-kind one
ValidBallot(p, b) ==
    \A q \in QuestionsOf(p) :
        /\ \A i \in 1..Len(b[q]) : b[q][i] \in ChoicesOf(q)
        /\ ~HasDuplicates(b[q])
        /\ IF questions[q].type = "question" THEN Len(b[q]) = 1
           ELSE questions[q].min <= Len(b[q]) /\ Len(b[q]) <= questions[q].max

\* Number of selections of a ballot, over the questions q.. of poll p
RECURSIVE SelectionsFrom(_, _, _)
SelectionsFrom(p, b, q) ==
    IF q > Len(questions) THEN 0
    ELSE (IF questions[q].poll = p THEN Len(b[q]) ELSE 0)
         + SelectionsFrom(p, b, q + 1)

\* C8: requests of one participant sent one after the other on a PENDING
\* poll.  The request with a valid ballot of a participant who has not voted
\* passes every check and succeeds; its success sets is_voted and leaves as
\* the participant's rows one row per selection of that ballot.  From then
\* on every vote request of the participant is answered AlreadyVoted and
\* the participant's rows and flag never change.
C8_SecondVoteRejected ==
    [][\A r \in SeqWorkers :
          /\ (reqs[r].op = "vote" /\ ValidBallot(reqs[r].pk, reqs[r].ballot))
                 => \/ reqs'[r] = [reqs[r] EXCEPT !.pc = "commit"]
                    \/ /\ Finishes(r, "vote") /\ resp'.result = "ok"
                       /\ pollUsers'[reqs[r].user].is_voted
                       /\ VotesAfter(reqs[r].user) =
                              SelectedChoices(reqs[r].pk, reqs[r].ballot)
                       /\ Cardinality(VotesAfter(reqs[r].user)) =
                              SelectionsFrom(reqs[r].pk, reqs[r].ballot, 1)
          /\ \A u \in 1..Len(pollUsers) :
                 pollUsers[u].is_voted =>
                     /\ pollUsers'[u].is_voted
                     /\ VotesAfter(u) = VotesOf(u)
                     /\ ~(GoesInFlight(r, "vote", pollUsers[u].poll)
                            /\ reqs'[r].user = u)
                     /\ (AnsweredAtOnce("vote", pollUsers[u].poll)
                            /\ resp'.user = u)
                            => resp'.result = "AlreadyVoted"]_vars

C8_Witness ==
    /\ resp.op = "vote" /\ resp.result = "AlreadyVoted"
    /\ resp.user \in 1..Len(pollUsers)
    /\ pollUsers[resp.user].is_voted
    /\ status(polls[resp.pk]) = "PENDING"
    /\ Cardinality(VotesOf(resp.user)) = 3

\* C9: vote submission is at-most-once: whenever a vote request commits,
\* the participant's stored rows are exactly the selections of that one
\* ballot, also when another request of the participant passed the
\* has-voted check at the same time.
C9_RowsOfOneBallot ==
    [][\A r \in Workers :
          (Finishes(r, "vote") /\ resp'.result = "ok")
              => VotesAfter(reqs[r].user) =
                     SelectedChoices(reqs[r].pk, reqs[r].ballot)]_vars

\* C10: no vote request is answered with the raw error of the store: a
\* request that loses a race is answered AlreadyVoted.
C10_NoRawStoreError ==
    resp.op = "vote" => resp.result # "IntegrityError"

\* C11: a vote request of a participant who has not voted, received while
\* the poll is WAITING or FINISHED, is answered PollNotActive in that same
\* step, never goes on to the form, and the step adds no UserChoice row and
\* leaves every is_voted flag as it was.
C11_VoteOutsideWindowFails ==
    [][\A p \in PollPks : \A u \in MembersOf(p) :
          (~pollUsers[u].is_voted
              /\ status(polls[p]) \in {"WAITING", "FINISHED"}) =>
              /\ \A r \in Workers :
                     ~(GoesInFlight(r, "vote", p) /\ reqs'[r].user = u)
              /\ (AnsweredAtOnce("vote", p) /\ resp'.user = u)
                     => /\ resp'.result = "PollNotActive"
                        /\ userChoices' = userChoices
                        /\ pollUsers' = pollUsers]_vars

C11_Witness ==
    /\ resp.op = "vote" /\ resp.result = "PollNotActive"
    /\ resp.user \in 1..Len(pollUsers)
    /\ status(polls[resp.pk]) = "FINISHED"
    /\ ~pollUsers[resp.user].is_voted
    /\ VotesOf(resp.user) = {}
    /\ \A r \in Workers : Free(r)

----------------------------------------------------------------------------
(* Ballot constraints *)

\* The choices a ballot selects for question q: the value of the radio field
\* of a single-kind question (the last value posted for it), every value
\* posted for a multi-kind one
AnswerOf(b, q) ==
    IF b[q] = <<>> THEN {}
    ELSE IF questions[q].type = "question" THEN {Last(b[q])}
    ELSE {b[q][i] : i \in 1..Len(b[q])}

\* Every single-kind question is answered and the number of selections of
\* every multi-kind question lies between its min and its max
InBounds(p, b) ==
    \A q \in QuestionsOf(p) :
        IF questions[q].type = "question" THEN b[q] # <<>>
        ELSE questions[q].min <= Len(b[q]) /\ Len(b[q]) <= questions[q].max

\* The error kinds that the constraints violated by a ballot call for
ExpectedKinds(p, b) ==
    {k \in {"required", "min_choices", "max_choices"} :
        \E q \in QuestionsOf(p) :
            \/ k = "required" /\ questions[q].type = "question" /\ b[q] = <<>>
            \/ k = "min_choices" /\ questions[q].type = "multiple"
                   /\ Len(b[q]) < questions[q].min
            \/ k = "max_choices" /\ questions[q].type = "multiple"
                   /\ Len(b[q]) > questions[q].max}

\* C12: on a PENDING poll, the vote request of a participant who has not
\* voted succeeds if and only if every single-kind question is answered and
\* every multi-kind question has between min and max selections; it then
\* leaves, for each question, exactly the rows of the selected choices (none
\* for a multi-kind question with no selection and min = 0).  Otherwise it
\* is answered with form errors among required, min_choices and max_choices,
\* one of which names a violated constraint.
C12_AcceptedIffInBounds ==
    [][\A r \in SeqWorkers :
          (/\ Finishes(r, "vote")
           /\ status(polls[reqs[r].pk]) = "PENDING"
           /\ ~pollUsers[reqs[r].user].is_voted) =>
              LET p == reqs[r].pk
                  u == reqs[r].user
                  b == reqs[r].ballot
              IN  IF InBounds(p, b)
                  THEN /\ resp'.result = "ok"
                       /\ \A q \in QuestionsOf(p) :
                              VotesAfter(u) \cap ChoicesOf(q) = AnswerOf(b, q)
                  ELSE /\ resp'.result = "Invalid"
                       /\ resp'.errors \subseteq
                              {"required", "min_choices", "max_choices"}
                       /\ resp'.errors \cap ExpectedKinds(p, b) # {}]_vars

\* C13: a vote request whose ballot violates the constraint of some question
\* never reaches the transaction; it is answered with an error, and the
\* step adds no UserChoice row for any question and leaves is_voted false.
C13_NoPartialAcceptance ==
    [][\A r \in SeqWorkers :
          (reqs[r].op = "vote" /\ ~InBounds(reqs[r].pk, reqs[r].ballot)) =>
              /\ reqs'[r].pc # "commit"
              /\ Finishes(r, "vote") =>
                     /\ resp'.result # "ok"
                     /\ userChoices' = userChoices
                     /\ pollUsers' = pollUsers
                     /\ ~pollUsers'[reqs[r].user].is_voted]_vars

C13_Witness ==
    /\ resp.op = "vote" /\ resp.result = "Invalid"
    /\ resp.errors = {"max_choices"}
    /\ resp.user \in 1..Len(pollUsers)
    /\ ~pollUsers[resp.user].is_voted
    /\ userChoices = {}

\* C14: after every step a participant who has UserChoice rows has is_voted
\* set, and a vote request that succeeds sets is_voted and adds, in that
\* same step, exactly one row for each choice its ballot selects.
C14_RowsOnlyWithFlag ==
    [][/\ \A u \in 1..Len(pollUsers') :
              VotesAfter(u) # {} => pollUsers'[u].is_voted
       /\ \A r \in Workers :
              (Finishes(r, "vote") /\ resp'.result = "ok") =>
                  /\ pollUsers'[reqs[r].user].is_voted
                  /\ VotesAfter(reqs[r].user) \ VotesOf(reqs[r].user) =
                         SelectedChoices(reqs[r].pk, reqs[r].ballot)
                  /\ \A u \in 1..Len(pollUsers) :
                         u # reqs[r].user => VotesAfter(u) = VotesOf(u)]_vars

C14_Witness ==
    /\ resp.op = "vote" /\ resp.result = "ok"
    /\ pollUsers[resp.user].is_voted
    /\ VotesOf(resp.user) # {}
    /\ \E r \in Workers : reqs[r].op = "vote" /\ reqs[r].pc = "commit"

----------------------------------------------------------------------------
(* Addressing and order of the checks of a vote request *)

\* Poll p exists and u is one of its participants
Addressed(p, u) ==
    p \in PollPks /\ u \in 1..Len(pollUsers) /\ pollUsers[u].poll = p

\* A vote request was answered in the step that received it
VoteAnsweredAtOnce == reqs' = reqs /\ resp' # resp /\ resp'.op = "vote"

\* C15: a vote request is answered NotFound when its identifiers do not
\* resolve, else AlreadyVoted when the participant has voted (whatever the
\* status of the poll and whatever the ballot), else PollNotActive when the
\* poll is not PENDING; only a request that passed these three checks has
\* its ballot examined.
C15_ChecksInOrder ==
    [][/\ VoteAnsweredAtOnce =>
              resp'.result =
                  IF ~Addressed(resp'.pk, resp'.user) THEN "NotFound"
                  ELSE IF pollUsers[resp'.user].is_voted THEN "AlreadyVoted"
                  ELSE "PollNotActive"
       /\ \A r \in Workers :
              (Free(r) /\ reqs'[r].op = "vote") =>
                  /\ Addressed(reqs'[r].pk, reqs'[r].user)
                  /\ ~pollUsers[reqs'[r].user].is_voted
                  /\ status(polls[reqs'[r].pk]) = "PENDING"
       /\ (resp' # resp /\ resp'.op = "vote" /\ resp'.result = "Invalid") =>
              \E r \in Workers : Finishes(r, "vote")]_vars

C15_Witness ==
    /\ resp.op = "vote" /\ resp.result = "AlreadyVoted"
    /\ Addressed(resp.pk, resp.user)
    /\ pollUsers[resp.user].is_voted
    /\ status(polls[resp.pk]) = "FINISHED"
    /\ \A r \in Workers : Free(r)

\* C16: a vote request whose poll identifier names no poll, or whose
\* participant identifier names no participant or a participant of another
\* poll, is answered NotFound in the step that receives it, never reaches
\* the form, and the step changes no UserChoice row and no is_voted flag.
C16_UnresolvedIsNotFound ==
    [][/\ \A r \in SeqWorkers :
              (Free(r) /\ reqs'[r].op = "vote") =>
                  Addressed(reqs'[r].pk, reqs'[r].user)
       /\ (VoteAnsweredAtOnce /\ ~Addressed(resp'.pk, resp'.user)) =>
              /\ resp'.result = "NotFound"
              /\ userChoices' = userChoices
              /\ pollUsers' = pollUsers]_vars

\* NotFound for a participant of another poll, both polls open for voting
C16_Witness ==
    /\ resp.op = "vote" /\ resp.result = "NotFound"
    /\ resp.pk \in PollPks
    /\ resp.user \in 1..Len(pollUsers)
    /\ pollUsers[resp.user].poll # resp.pk
    /\ ~pollUsers[resp.user].is_voted
    /\ status(polls[resp.pk]) = "PENDING"
    /\ status(polls[pollUsers[resp.user].poll]) = "PENDING"

----------------------------------------------------------------------------
(* Notifications *)

\* C17: a start request that passed its checks always ends in success with
\* time_start stored, and in that step one more send has been attempted for
\* every participant of the poll, whichever of the sends raise.
C17_SendFailuresSwallowed ==
    [][\A r \in Workers :
          (reqs[r].op = "start" /\ reqs'[r] # reqs[r]) =>
              /\ resp'.op = "start" /\ resp'.result = "ok"
              /\ polls'[reqs[r].pk].time_start = clock
              /\ \A u \in MembersOf(reqs[r].pk) :
                     sent'[u].tried = sent[u].tried + 1]_vars

\* The send to the first participant raised, the second was still notified
C17_Witness ==
    /\ resp.op = "start" /\ resp.result = "ok"
    /\ polls[resp.pk].time_start # None
    /\ \E u, v \in MembersOf(resp.pk) :
           /\ u < v
           /\ sent[u].failed = 1 /\ sent[u].tried = 1
           /\ sent[v].failed = 0 /\ sent[v].tried = 1

----------------------------------------------------------------------------
(* Poll creation *)

\* Number of choices of a submitted question that are not blank
Surviving(q) ==
    Cardinality({i \in 1..Len(q.choices) : Strip(q.choices[i]) # <<>>})

\* The submitted min and max are numbers
HasNumbers(q) ==
    /\ GetOr1(q.min).k \in {"int", "numstr"}
    /\ GetOr1(q.max).k \in {"int", "numstr"}

\* The range that the submitted min and max describe is not a range
BadRange(q) ==
    \/ GetOr1(q.min).v < 0
    \/ GetOr1(q.max).v < 1
    \/ GetOr1(q.min).v > GetOr1(q.max).v

\* A submitted question that has a text, two choices and a kind
HasTextChoicesKind(q) ==
    /\ Strip(q.question) # <<>>
    /\ Surviving(q) >= 2
    /\ q.type \in {"question", "multiple"}

\* A submitted question that the validator of section 4.2 accepts
Conforming(q) ==
    /\ HasTextChoicesKind(q)
    /\ q.type = "multiple" =>
           HasNumbers(q) /\ ~BadRange(q) /\ GetOr1(q.max).v <= Surviving(q)

\* The rows stored for the poll created last, given its form
RowOf(form, i) ==
    questions[Len(questions) - Len(form.questions_data) + i]

\* C18: every stored single-kind question has min = 1 and max = 1.  A form
\* with a title, a participant with an e-mail, and single-kind questions that
\* each have a text and two choices is accepted whatever it submits for min
\* and max, and each of its questions is stored with min = 1 and max = 1.
C18_SingleKindIsOneOne ==
    /\ \A q \in 1..Len(questions) :
           questions[q].type = "question" =>
               questions[q].min = 1 /\ questions[q].max = 1
    /\ resp.op = "create" =>
           LET qd == resp.form.questions_data
           IN  /\ (/\ Strip(resp.form.title) # <<>>
                   /\ qd # <<>>
                   /\ \A i \in 1..Len(qd) :
                          HasTextChoicesKind(qd[i]) /\ qd[i].type = "question"
                   /\ \A k \in 1..Len(resp.form.participants_data) :
                          Strip(resp.form.participants_data[k].email) # <<>>)
                      => resp.result = "ok"
               /\ resp.result = "ok" =>
                      \A i \in 1..Len(qd) :
                          qd[i].type = "question" =>
                              /\ RowOf(resp.form, i).type = "question"
                              /\ RowOf(resp.form, i).min = 1
                              /\ RowOf(resp.form, i).max = 1

\* A single-kind question submitted with a non-numeric min and max = 0
C18_Witness ==
    /\ resp.op = "create" /\ resp.result = "ok"
    /\ resp.form.questions_data[1].type = "question"
    /\ resp.form.questions_data[1].min = JNaN
    /\ resp.form.questions_data[1].max = JInt(0)
    /\ questions[1].type = "question"
    /\ questions[1].min = 1 /\ questions[1].max = 1

\* C19: every stored question has min <= max and 1 <= max <= the number of
\* its stored choices, with min = max = 1 when single-kind.  A form whose
\* first question that does not conform is a multi-kind question with a
\* text, two choices and numeric bounds is rejected with invalid_range when
\* min < 0, max < 1 or min > max, and otherwise with invalid_max when max
\* exceeds the number of its non-blank choices.
C19_StoredBoundsAreSound ==
    /\ \A q \in 1..Len(questions) :
           /\ questions[q].min <= questions[q].max
           /\ 1 <= questions[q].max
           /\ questions[q].max <= Cardinality(ChoicesOf(q))
           /\ questions[q].type = "question" =>
                  questions[q].min = 1 /\ questions[q].max = 1
    /\ resp.op = "create" =>
           LET qd == resp.form.questions_data
           IN  \A i \in 1..Len(qd) :
                   (/\ \A j \in 1..(i - 1) : Conforming(qd[j])
                    /\ HasTextChoicesKind(qd[i])
                    /\ qd[i].type = "multiple"
                    /\ HasNumbers(qd[i])) =>
                       /\ BadRange(qd[i]) =>
                              /\ resp.result = "Invalid"
                              /\ "invalid_range" \in resp.errors
                       /\ (~BadRange(qd[i])
                              /\ GetOr1(qd[i].max).v > Surviving(qd[i])) =>
                              /\ resp.result = "Invalid"
                              /\ "invalid_max" \in resp.errors

\* Three non-blank choices and max = 5, on a store that holds nothing
C19_Witness ==
    /\ resp.op = "create" /\ resp.result = "Invalid"
    /\ resp.errors = {"invalid_max"}
    /\ Len(resp.form.questions_data) = 1
    /\ resp.form.questions_data[1].type = "multiple"
    /\ Surviving(resp.form.questions_data[1]) = 3
    /\ resp.form.questions_data[1].min = JInt(0)
    /\ resp.form.questions_data[1].max = JInt(5)
    /\ questions = <<>>

\* A question or a participant entry of the form fails validation
HasFailingEntry(form) ==
    \/ \E i \in 1..Len(form.questions_data) :
           ~Conforming(form.questions_data[i])
    \/ \E k \in 1..Len(form.participants_data) :
           /\ Strip(form.participants_data[k].name) # <<>>
           /\ Strip(form.participants_data[k].email) = <<>>

\* C20: a creation request whose form has a failing question or participant
\* entry is rejected, and a rejected creation request leaves the Poll,
\* Question, Choice and PollUser tables exactly as they were; an accepted one
\* adds one poll and all the questions of its form.
C20_CreationIsAllOrNothing ==
    [][resp'.op = "create" =>
          /\ HasFailingEntry(resp'.form) => resp'.result = "Invalid"
          /\ resp'.result # "ok" =>
                 /\ polls' = polls
                 /\ questions' = questions
                 /\ choices' = choices
                 /\ pollUsers' = pollUsers
          /\ resp'.result = "ok" =>
                 /\ Len(polls') = Len(polls) + 1
                 /\ Len(questions') =
                        Len(questions) + Len(resp'.form.questions_data)
                 /\ \A i \in 1..Len(resp'.form.questions_data) :
                        Len(choices') - Len(choices) >=
                            Surviving(resp'.form.questions_data[i])]_vars

\* Rejected for the second question, whose choices leave one non-blank, on a
\* store that already holds a poll
C20_Witness ==
    /\ resp.op = "create" /\ resp.result = "Invalid"
    /\ resp.errors = {"not_enough_choices"}
    /\ Len(resp.form.questions_data) = 2
    /\ Conforming(resp.form.questions_data[1])
    /\ Surviving(resp.form.questions_data[2]) = 1
    /\ Len(polls) = 1
    /\ Len(questions) = 1

----------------------------------------------------------------------------
(* Participants of a new poll *)

\* C21: a creation request whose participant list has an entry with no
\* e-mail (missing, or blank once trimmed), with or without a name, is
\* rejected with email_required.
C21_EveryEntryNeedsEmail ==
    (/\ resp.op = "create"
     /\ \E k \in 1..Len(resp.form.participants_data) :
            Strip(resp.form.participants_data[k].email) = <<>>)
        => resp.result = "Invalid" /\ "email_required" \in resp.errors

\* The e-mail of entry k of a participant list, trimmed and lower-cased
Address(pd, k) == Lower(Strip(pd[k].email))

\* The first entry of the list that has the e-mail e
FirstWith(pd, e) ==
    CHOOSE k \in 1..Len(pd) :
        Address(pd, k) = e /\ \A j \in 1..(k - 1) : Address(pd, j) # e

\* C22: (poll, e-mail) is unique among the stored participants.  A form with
\* a title, conforming questions and an e-mail in every participant entry
\* is accepted also when e-mails repeat (as written, or up to case and
\* surrounding blanks).  After an accepted creation the participants of the
\* new poll are one per distinct e-mail of the list, nobody else, each with
\* the trimmed name of the first entry that has the e-mail (the default name
\* when that name is blank).
C22_ParticipantsAreDistinctEmails ==
    /\ \A u, v \in 1..Len(pollUsers) :
           (u # v /\ pollUsers[u].poll = pollUsers[v].poll)
               => pollUsers[u].email # pollUsers[v].email
    /\ resp.op = "create" =>
           LET pd == resp.form.participants_data
               emails == {Address(pd, k) : k \in 1..Len(pd)} \ {<<>>}
           IN  /\ (/\ Strip(resp.form.title) # <<>>
                   /\ resp.form.questions_data # <<>>
                   /\ \A i \in 1..Len(resp.form.questions_data) :
                          Conforming(resp.form.questions_data[i])
                   /\ \A k \in 1..Len(pd) : Address(pd, k) # <<>>)
                      => resp.result = "ok"
               /\ resp.result = "ok" =>
                      /\ {pollUsers[u].email : u \in MembersOf(resp.pk)} = emails
                      /\ Cardinality(MembersOf(resp.pk)) = Cardinality(emails)
                      /\ \A u \in MembersOf(resp.pk) :
                             LET first == pd[FirstWith(pd, pollUsers[u].email)]
                             IN  pollUsers[u].name =
                                     IF Strip(first.name) = <<>> THEN DefaultName
                                     ELSE Strip(first.name)

\* Three entries, two of them with the same e-mail up to case and blanks
C22_Witness ==
    /\ resp.op = "create" /\ resp.result = "ok"
    /\ resp.form.participants_data = <<Bob, Alice, AliceUpper>>
    /\ Cardinality(MembersOf(resp.pk)) = 2
    /\ \E u \in MembersOf(resp.pk) :
           pollUsers[u].email = <<"a">> /\ pollUsers[u].name = Alice.name
    /\ \E u \in MembersOf(resp.pk) :
           pollUsers[u].email = <<"b">> /\ pollUsers[u].name = DefaultName

----------------------------------------------------------------------------
(* Results *)

\* Number of stored vote rows that reference choice c
RowsFor(c) == Cardinality({u \in 1..Len(pollUsers) : <<u, c>> \in userChoices})

\* C23: for a FINISHED poll both pages show results: for every question of
\* the poll and every choice of the question, also a choice nobody
\* selected, the number of vote rows that reference the choice.
C23_ResultsCountRows ==
    \A p \in PollPks :
        status(polls[p]) = "FINISHED" =>
            \A results \in {VoteViewResults(p), HistoryDetailResults(p)} :
                /\ results.available
                /\ DOMAIN results.counts = QuestionsOf(p)
                /\ \A q \in QuestionsOf(p) :
                       /\ DOMAIN results.counts[q] = ChoicesOf(q)
                       /\ \A c \in ChoicesOf(q) :
                              results.counts[q][c] = RowsFor(c)

\* A finished poll with a question whose choices got 2 votes and 1 vote, and
\* a choice that got none
C23_Witness ==
    \E p \in PollPks :
        /\ status(polls[p]) = "FINISHED"
        /\ \E q \in QuestionsOf(p) : \E a, b \in ChoicesOf(q) :
               /\ VoteViewResults(p).counts[q][a] = 2
               /\ VoteViewResults(p).counts[q][b] = 1
        /\ \E q \in QuestionsOf(p) : \E c \in ChoicesOf(q) :
               VoteViewResults(p).counts[q][c] = 0

\* C24: for a poll whose status is WAITING or PENDING neither page shows
\* results, and calculate_poll_results gives none.
C24_NoResultsBeforeFinished ==
    \A p \in PollPks :
        status(polls[p]) # "FINISHED" =>
            /\ VoteViewResults(p) = Unavailable
            /\ HistoryDetailResults(p) = Unavailable
            /\ calculate_poll_results(p) = Unavailable

----------------------------------------------------------------------------
(* Who may start and end a poll *)

\* C25: a start or end request for a poll sent by a member who is not its
\* creator is answered NotFound or PermissionDenied in the step that
\* receives it, never goes on to save, and that step changes no poll and
\* sends no notification; time_start and time_end of a poll change only in
\* a step that finishes a request of its creator.
C25_OnlyCreatorStartsAndEnds ==
    [][\A p \in PollPks :
          /\ \A op \in {"start", "end"} :
                 /\ \A r \in Workers :
                        GoesInFlight(r, op, p)
                            => reqs'[r].actor = polls[p].creator
                 /\ (AnsweredAtOnce(op, p) /\ resp'.actor # polls[p].creator)
                        => /\ resp'.result \in {"NotFound", "PermissionDenied"}
                           /\ polls' = polls
                           /\ sent' = sent
          /\ (\/ polls'[p].time_start # polls[p].time_start
              \/ polls'[p].time_end # polls[p].time_end)
                 => \E r \in Workers :
                        /\ reqs[r].op \in {"start", "end"} /\ reqs[r].pk = p
                        /\ reqs[r].actor = polls[p].creator
                        /\ reqs'[r] = IdleReq]_vars

C25_Witness ==
    /\ resp.op \in {"start", "end"} /\ resp.result = "NotFound"
    /\ resp.pk \in PollPks
    /\ resp.actor # polls[resp.pk].creator

----------------------------------------------------------------------------
(* Votes and the end of the poll *)

\* C26: from the state in which an end request has set time_end, no step
\* adds a vote row of a participant of the poll and the counts of
\* calculate_poll_results stay as they are, also when a vote request that
\* passed its status checks is still in flight.
C26_NoRowsAfterEnd ==
    [][\A p \in PollPks :
          polls[p].time_end # None =>
              /\ \A u \in MembersOf(p) : VotesAfter(u) = VotesOf(u)
              /\ \A c \in 1..Len(choices) :
                     choices[c].question \in QuestionsOf(p) =>
                         Cardinality({row \in userChoices' : row[2] = c})
                             = Cardinality({row \in userChoices : row[2] = c})]_vars

----------------------------------------------------------------------------
(* Votes and the questions they answer *)

\* C27: every vote row references a choice of a question of the poll of
\* its participant; the rows a vote request adds are rows of its
\* participant, each for a choice that the ballot gives as the answer to
\* the question of that choice; a request whose ballot answers some
\* question with a choice that is not a choice of that question is
\* answered Invalid with invalid_choice when its form is validated, never
\* succeeds, and stores nothing.
C27_RowsAnswerTheirQuestion ==
    /\ [](\A row \in userChoices :
             choices[row[2]].question \in QuestionsOf(pollUsers[row[1]].poll))
    /\ [][\A r \in Workers :
             (reqs[r].op = "vote" /\ reqs'[r] = IdleReq) =>
                 LET p == reqs[r].pk
                     b == reqs[r].ballot
                 IN  /\ \A row \in userChoices' \ userChoices :
                            /\ row[1] = reqs[r].user
                            /\ choices[row[2]].question \in QuestionsOf(p)
                            /\ row[2] \in AnswerOf(b, choices[row[2]].question)
                     /\ (\E q \in QuestionsOf(p) :
                            ~(AnswerOf(b, q) \subseteq ChoicesOf(q)))
                            => /\ resp'.result # "ok"
                               /\ reqs[r].pc = "form" =>
                                      /\ resp'.result = "Invalid"
                                      /\ "invalid_choice" \in resp'.errors
                               /\ userChoices' = userChoices
                               /\ pollUsers' = pollUsers]_vars

\* Two polls, a stored vote, and a ballot just rejected for a choice of
\* another question
C27_Witness ==
    /\ Len(polls) = 2
    /\ userChoices # {}
    /\ resp.op = "vote" /\ resp.result = "Invalid"
    /\ "invalid_choice" \in resp.errors

====
